---- MODULE Spec2Model ----
(***************************************************************************)
(* A model of three parts of the faiss sources:                            *)
(*   - the IndexBinary base class (IndexBinary.h / IndexBinary.cpp),       *)
(*   - GpuIndexIVFFlat (gpu/GpuIndexIVFFlat.cu),                           *)
(*   - the brute-force kNN entry point bfKnn (gpu/GpuDistance.cu).         *)
(* Each part has its own next-state relation and specification; the parts  *)
(* share no state.                                                         *)
(***************************************************************************)
EXTENDS Integers, Sequences, FiniteSets, TLC

VARIABLES
    bin,     \* the IndexBinary fields: d, ntotal, verbose, is_trained, metric_type
    xb,      \* the codes a concrete binary index stores, in insertion order
    sub,     \* what the concrete binary index overrides
    bcall,   \* the last IndexBinary call: arguments, buffers, calls made, outcome
    bpre,    \* the IndexBinary fields just before the last call
    gpu,     \* the GpuIndexIVFFlat object
    gcall,   \* the last GpuIndexIVFFlat call: arguments, output, outcome
    gpre,    \* the GpuIndexIVFFlat object just before the last call
    kbuild,  \* how the library was built: with or without USE_NVIDIA_RAFT
    kcall,   \* the last bfKnn call: arguments and outcome
    thr      \* the threads that read the IndexBinary: each one's call in progress

binvars == <<bin, xb, sub, bcall, bpre>>
gpuvars == <<gpu, gcall, gpre>>
knnvars == <<kbuild, kcall>>
thrvars == <<thr>>
vars == <<bin, xb, sub, bcall, bpre, gpu, gcall, gpre, kbuild, kcall, thr>>

(***************************************************************************)
(* Bounds of the model.                                                    *)
(***************************************************************************)
MaxSlots == 4       \* n * k of a search is at most this
MaxStore == 2       \* number of codes a binary index stores
MaxNi == 2          \* ni of reconstruct_n
MaxTotal == 3       \* add stops when the GPU index holds this many vectors
MaxCpu == 2         \* vectors of a CPU index given to copyFrom
MaxReserve == 2     \* numVecs of reserveMemory

Dims == {8, 16}                       \* vector dimensions (in bits) tried
CodePatterns == {<<0, 0>>, <<1, 255>>} \* the first bytes of the codes added
Garbage == {0, 7}                     \* what an output buffer holds before a call
XPatterns == {0, 200}                 \* inputs of compute_residual
DistVals == {3}                       \* distances a search reports
Queries == {1, 2}                     \* query batches (opaque to the base class)

(***************************************************************************)
(* Buffers are functions from byte offsets 0..size-1.                      *)
(***************************************************************************)
Buffer(size, g) == [o \in 0 .. size - 1 |-> g]

\* the state a const method works on: the output buffer, the offsets written,
\* the reconstruct calls made so far and the outcome so far
Mem(size, g) ==
    [buf |-> Buffer(size, g), written |-> {}, calls |-> <<>>, res |-> "ok"]

\* number of bytes a packed binary vector of dd bits takes
code_size(dd) == (dd + 7) \div 8

XByte(p, i) == (p + 37 * i) % 256

(***************************************************************************)
(* IndexBinary: construction.                                              *)
(***************************************************************************)
\* a variant that leaves a new index untrained
IndexBinary_ctor_untrained(dd, metric) ==
    [d |-> dd, ntotal |-> 0, verbose |-> FALSE, is_trained |-> FALSE,
     metric_type |-> metric]

IndexBinary_ctor(dd, metric) ==
    [d |-> dd, ntotal |-> 0, verbose |-> FALSE, is_trained |-> TRUE,
     metric_type |-> metric]

(***************************************************************************)
(* IndexBinary: default implementations that throw.  Each yields the       *)
(* outcome and the fields after the call.                                  *)
(***************************************************************************)
IndexBinary_range_search(self, n, x, radius) ==
    [res |-> "error", self |-> self]

\* a variant that forwards to add and drops the ids
IndexBinary_add_with_ids_forwarding(self, n, x, xids) ==
    [res |-> "ok", self |-> [self EXCEPT !.ntotal = @ + n]]

IndexBinary_add_with_ids(self, n, x, xids) ==
    [res |-> "error", self |-> self]

IndexBinary_remove_ids(self, sel) ==
    [res |-> "error", self |-> self]

\* the default reconstruct: throws, writes nothing
IndexBinary_reconstruct(key, m, off) ==
    [m EXCEPT !.calls = Append(@, [key |-> key, off |-> off]),
              !.res = "error"]

\* a variant of train that refuses an empty training set
IndexBinary_train_nonempty(self, n, x) ==
    IF n = 0 THEN [res |-> "error", self |-> self]
    ELSE [res |-> "ok", self |-> [self EXCEPT !.is_trained = TRUE]]

\* the default train: does nothing
IndexBinary_train(self, n, x) ==
    [res |-> "ok", self |-> self]

(***************************************************************************)
(* A concrete binary index (flat store): add appends, reset clears,        *)
(* reconstruct copies the stored code.                                     *)
(***************************************************************************)
Flat_reconstruct(key, m, off) ==
    LET cs == code_size(bin.d)
        code == xb[key + 1]
    IN  [m EXCEPT
            !.calls = Append(@, [key |-> key, off |-> off]),
            !.buf = [o \in DOMAIN m.buf |->
                        IF o \in off .. off + cs - 1
                        THEN code[o - off + 1] ELSE m.buf[o]],
            !.written = @ \cup (off .. off + cs - 1)]

\* virtual dispatch of reconstruct
reconstruct(key, m, off) ==
    IF sub.reconstruct
    THEN Flat_reconstruct(key, m, off)
    ELSE IndexBinary_reconstruct(key, m, off)

\* the labels a search reports: -1 (no result), the first or the last stored id
LabelVals == {-1} \cup ({0, bin.ntotal - 1} \cap (0 .. bin.ntotal - 1))

\* the results a search may report for n queries and k neighbours: it fails, or
\* it fills n*k labels (each a stored id or -1) and n*k distances
SearchOutcomes(n, k) ==
    {[res |-> "error", labels |-> <<>>, distances |-> <<>>]}
    \cup
    {[res |-> "ok", labels |-> l, distances |-> [s \in 0 .. n * k - 1 |-> dv]] :
        l \in [0 .. n * k - 1 -> LabelVals], dv \in DistVals}

(***************************************************************************)
(* IndexBinary::reconstruct_n                                              *)
(***************************************************************************)
\* a variant that walks the keys from the last to the first
RECURSIVE reconstruct_n_from_last(_, _, _, _)
reconstruct_n_from_last(i0, ni, i, m) ==
    IF ~(i < ni) THEN m
    ELSE LET m2 == reconstruct(i0 + ni - 1 - i, m, (ni - 1 - i) * bin.d)
         IN  IF m2.res = "error" THEN m2
             ELSE reconstruct_n_from_last(i0, ni, i + 1, m2)

RECURSIVE reconstruct_n_from(_, _, _, _)
reconstruct_n_from(i0, ni, i, m) ==
    IF ~(i < ni) THEN m
    ELSE LET m2 == reconstruct(i0 + i, m, i * bin.d)
         IN  IF m2.res = "error" THEN m2
             ELSE reconstruct_n_from(i0, ni, i + 1, m2)

IndexBinary_reconstruct_n(i0, ni, m) == reconstruct_n_from(i0, ni, 0, m)

(***************************************************************************)
(* IndexBinary::search_and_reconstruct: the two nested loops after search. *)
(***************************************************************************)
memset(m, off, value, count) ==
    [m EXCEPT
        !.buf = [o \in DOMAIN m.buf |->
                    IF o \in off .. off + count - 1 THEN value % 256
                    ELSE m.buf[o]],
        !.written = @ \cup (off .. off + count - 1)]

\* a variant whose sign test also takes label 0 for a missing result
search_and_reconstruct_slot_le(k, labels, i, j, m) ==
    LET ij == i * k + j
        key == labels[ij]
        reconstructed == ij * bin.d
    IN  IF key <= 0
        THEN memset(m, reconstructed, -1, 1 * bin.d)
        ELSE reconstruct(key, m, reconstructed)

search_and_reconstruct_slot(k, labels, i, j, m) ==
    LET ij == i * k + j
        key == labels[ij]
        reconstructed == ij * bin.d
    IN  IF key < 0
        THEN memset(m, reconstructed, -1, 1 * bin.d)
        ELSE reconstruct(key, m, reconstructed)

RECURSIVE search_and_reconstruct_from(_, _, _, _, _, _)
search_and_reconstruct_from(n, k, labels, i, j, m) ==
    IF ~(i < n) THEN m
    ELSE IF ~(j < k) THEN search_and_reconstruct_from(n, k, labels, i + 1, 0, m)
    ELSE LET m2 == search_and_reconstruct_slot(k, labels, i, j, m)
         IN  IF m2.res = "error" THEN m2
             ELSE search_and_reconstruct_from(n, k, labels, i, j + 1, m2)

\* sr is what the search call reported
IndexBinary_search_and_reconstruct(n, k, sr, m) ==
    IF sr.res = "error" THEN [m EXCEPT !.res = "error"]
    ELSE search_and_reconstruct_from(n, k, sr.labels, 0, 0, m)

(***************************************************************************)
(* IndexBinary::assign: a temporary distance array, one search call.       *)
(***************************************************************************)
\* a variant without the ScopeDeleter: the temporary array is never freed
IndexBinary_assign_leaking(n, x, k, sr) ==
    [res |-> sr.res,
     searches |-> <<[n |-> n, x |-> x, k |-> k, out |-> sr]>>,
     labels |-> sr.labels,
     distances |-> <<>>,
     temps |-> 1]

IndexBinary_assign(n, x, k, sr) ==
    LET allocated == 1                 \* new float[n * k]
        freed == allocated             \* ScopeDeleter, on return and on throw
    IN  [res |-> sr.res,
         searches |-> <<[n |-> n, x |-> x, k |-> k, out |-> sr]>>,
         labels |-> sr.labels,         \* search wrote the caller's labels
         distances |-> <<>>,           \* no distance buffer of the caller
         temps |-> allocated - freed]  \* temporary arrays still alive

(***************************************************************************)
(* IndexBinary::compute_residual                                           *)
(***************************************************************************)
\* a variant that subtracts the wrong way round
RECURSIVE compute_residual_reversed(_, _, _)
compute_residual_reversed(x, i, m) ==
    IF ~(i < bin.d) THEN m
    ELSE compute_residual_reversed(x, i + 1,
            [m EXCEPT !.buf[i] = (m.buf[i] - x[i]) % 256,
                      !.written = @ \cup {i}])

RECURSIVE compute_residual_from(_, _, _)
compute_residual_from(x, i, m) ==
    IF ~(i < bin.d) THEN m
    ELSE compute_residual_from(x, i + 1,
            [m EXCEPT !.buf[i] = (x[i] - m.buf[i]) % 256,
                      !.written = @ \cup {i}])

IndexBinary_compute_residual(x, key, m) ==
    LET m1 == reconstruct(key, m, 0)
    IN  IF m1.res = "error" THEN m1
        ELSE compute_residual_from(x, 0, m1)

(***************************************************************************)
(* The calls, as actions.                                                  *)
(***************************************************************************)
NoCall ==
    [op |-> "ctor", res |-> "ok", n |-> 0, k |-> 0, i0 |-> 0, ni |-> 0,
     key |-> 0, x |-> 0, g |-> 0,
     labels |-> <<>>, distances |-> <<>>, searches |-> <<>>,
     buf |-> <<>>, written |-> {}, calls |-> <<>>, after_rec |-> <<>>,
     xbuf |-> <<>>, xread |-> {}, temps |-> 0]

WithMem(c, m) ==
    [c EXCEPT !.res = m.res, !.buf = m.buf, !.written = m.written,
              !.calls = m.calls]

InitBinary ==
    /\ \E dd \in Dims : bin = IndexBinary_ctor(dd, "METRIC_L2")
    /\ xb = <<>>
    /\ sub \in [reconstruct : BOOLEAN]
    /\ bcall = NoCall
    /\ bpre = bin

\* an IndexBinary call leaves the other objects alone
BinFrame == UNCHANGED <<gpuvars, knnvars, thrvars>>

\* no call is in progress: the caller has taken the results of the last one
BinIdle == bcall.op \in {"ctor", "idle"}

\* the caller takes the results of the last call and releases its buffers
BinReturn ==
    /\ ~BinIdle
    /\ bcall' = [NoCall EXCEPT !.op = "idle"]
    /\ UNCHANGED <<bin, xb, sub, bpre>>
    /\ BinFrame

\* add of the concrete index: one code is appended under the label ntotal
BinAdd ==
    /\ BinIdle
    /\ bin.ntotal < MaxStore
    /\ \E c \in CodePatterns :
          xb' = Append(xb, [i \in 1 .. code_size(bin.d) |-> c[i]])
    /\ bin' = [bin EXCEPT !.ntotal = @ + 1]
    /\ bcall' = [NoCall EXCEPT !.op = "add", !.n = 1]
    /\ bpre' = bin
    /\ BinFrame
    /\ UNCHANGED sub

\* reset of the concrete index
BinReset ==
    /\ BinIdle
    /\ xb' = <<>>
    /\ bin' = [bin EXCEPT !.ntotal = 0]
    /\ bcall' = [NoCall EXCEPT !.op = "reset"]
    /\ bpre' = bin
    /\ BinFrame
    /\ UNCHANGED sub

BinTrain ==
    /\ BinIdle
    /\ \E n \in 0 .. 1, x \in Queries :
          LET r == IndexBinary_train(bin, n, x)
          IN  /\ bin' = r.self
              /\ bcall' = [NoCall EXCEPT !.op = "train", !.res = r.res,
                                         !.n = n, !.x = x]
    /\ bpre' = bin
    /\ BinFrame
    /\ UNCHANGED <<xb, sub>>

BinRangeSearch ==
    /\ BinIdle
    /\ \E n \in 0 .. 1, x \in Queries, radius \in {0, 1} :
          LET r == IndexBinary_range_search(bin, n, x, radius)
          IN  /\ bin' = r.self
              /\ bcall' = [NoCall EXCEPT !.op = "range_search",
                                         !.res = r.res, !.n = n, !.x = x]
    /\ bpre' = bin
    /\ BinFrame
    /\ UNCHANGED <<xb, sub>>

BinAddWithIds ==
    /\ BinIdle
    /\ \E n \in 0 .. 1, x \in Queries, xids \in {0, 5} :
          LET r == IndexBinary_add_with_ids(bin, n, x, xids)
          IN  /\ bin' = r.self
              /\ bcall' = [NoCall EXCEPT !.op = "add_with_ids",
                                         !.res = r.res, !.n = n, !.x = x]
    /\ bpre' = bin
    /\ BinFrame
    /\ UNCHANGED <<xb, sub>>

BinRemoveIds ==
    /\ BinIdle
    /\ \E sel \in SUBSET (0 .. 1) :
          LET r == IndexBinary_remove_ids(bin, sel)
          IN  /\ bin' = r.self
              /\ bcall' = [NoCall EXCEPT !.op = "remove_ids", !.res = r.res]
    /\ bpre' = bin
    /\ BinFrame
    /\ UNCHANGED <<xb, sub>>

\* keys a caller may pass: any key of a stored code, and key 0 of an index that
\* inherits the default reconstruct
Keys == IF sub.reconstruct THEN 0 .. bin.ntotal - 1 ELSE 0 .. MaxStore - 1

BinReconstruct ==
    /\ BinIdle
    /\ \E key \in Keys, g \in Garbage :
          LET m == reconstruct(key, Mem(bin.d, g), 0)
          IN  bcall' = WithMem([NoCall EXCEPT !.op = "reconstruct",
                                              !.key = key, !.g = g], m)
    /\ bpre' = bin
    /\ BinFrame
    /\ UNCHANGED <<bin, xb, sub>>

BinReconstructN ==
    /\ BinIdle
    /\ \E i0 \in 0 .. MaxStore, ni \in -1 .. MaxNi, g \in Garbage :
          /\ sub.reconstruct => i0 + ni <= bin.ntotal
          /\ LET m == IndexBinary_reconstruct_n(i0, ni,
                          Mem((IF ni > 0 THEN ni ELSE 0) * bin.d, g))
             IN  bcall' = WithMem([NoCall EXCEPT !.op = "reconstruct_n",
                                      !.i0 = i0, !.ni = ni, !.g = g], m)
    /\ bpre' = bin
    /\ BinFrame
    /\ UNCHANGED <<bin, xb, sub>>

BinSearchAndReconstruct ==
    /\ BinIdle
    /\ \E n \in 0 .. MaxSlots, k \in 1 .. MaxSlots, x \in Queries,
          g \in Garbage :
          /\ n * k <= MaxSlots
          /\ \E sr \in SearchOutcomes(n, k) :
                LET m == IndexBinary_search_and_reconstruct(n, k, sr,
                                Mem(n * k * bin.d, g))
                IN  bcall' = WithMem(
                           [NoCall EXCEPT !.op = "search_and_reconstruct",
                               !.n = n, !.k = k, !.x = x, !.g = g,
                               !.labels = sr.labels,
                               !.distances = sr.distances,
                               !.searches = <<[n |-> n, x |-> x, k |-> k,
                                               out |-> sr]>>], m)
    /\ bpre' = bin
    /\ BinFrame
    /\ UNCHANGED <<bin, xb, sub>>

BinAssign ==
    /\ BinIdle
    /\ \E n \in 0 .. MaxSlots, k \in 1 .. MaxSlots, x \in Queries :
          /\ n * k <= MaxSlots
          /\ \E sr \in SearchOutcomes(n, k) :
                LET r == IndexBinary_assign(n, x, k, sr)
                IN  bcall' = [NoCall EXCEPT !.op = "assign",
                                    !.res = r.res, !.n = n, !.k = k, !.x = x,
                                    !.labels = r.labels,
                                    !.distances = r.distances,
                                    !.searches = r.searches,
                                    !.temps = r.temps]
    /\ bpre' = bin
    /\ BinFrame
    /\ UNCHANGED <<bin, xb, sub>>

BinComputeResidual ==
    /\ BinIdle
    /\ \E key \in Keys, g \in Garbage, p \in XPatterns :
          LET x == [i \in 0 .. bin.d - 1 |-> XByte(p, i)]
              m1 == reconstruct(key, Mem(bin.d, g), 0)
              m == IndexBinary_compute_residual(x, key, Mem(bin.d, g))
          IN  bcall' = WithMem([NoCall EXCEPT !.op = "compute_residual",
                                   !.key = key, !.g = g, !.xbuf = x,
                                   !.after_rec = m1.buf,
                                   !.xread = IF m.res = "ok"
                                             THEN 0 .. bin.d - 1 ELSE {}], m)
    /\ bpre' = bin
    /\ BinFrame
    /\ UNCHANGED <<bin, xb, sub>>

NextBinary ==
    \/ BinAdd
    \/ BinReset
    \/ BinTrain
    \/ BinRangeSearch
    \/ BinAddWithIds
    \/ BinRemoveIds
    \/ BinReconstruct
    \/ BinReconstructN
    \/ BinSearchAndReconstruct
    \/ BinAssign
    \/ BinComputeResidual
    \/ BinReturn

(***************************************************************************)
(* Threads that call the reading methods of one IndexBinary at once.  A    *)
(* thread runs its call step by step: a step is one call of search or      *)
(* reconstruct, one allocation or release, or one pass of a loop body.     *)
(* The output buffers and the loop counters are the thread's own; the      *)
(* index (bin, xb) is shared.                                              *)
(***************************************************************************)
Threads == {1, 2}

NoSearch == [res |-> "error", labels |-> <<>>, distances |-> <<>>]

IdleThread ==
    [pc |-> "idle", op |-> "none", n |-> 0, k |-> 0, i0 |-> 0, ni |-> 0,
     key |-> 0, x |-> 0, g |-> 0, sr |-> NoSearch, i |-> 0, j |-> 0,
     m |-> Mem(0, 0), labels |-> <<>>, tmp |-> 0, res |-> "ok"]

\* the input x of compute_residual made from the pattern p
XBuf(p) == [i \in 0 .. bin.d - 1 |-> XByte(p, i)]

\* a variant of the allocation that hands out one static array
operator_new_static(live) == 1

\* new float[n * k]: an array that no live allocation uses
operator_new(live) == CHOOSE a \in 1 .. Cardinality(live) + 1 : a \notin live

\* the temporary arrays that are allocated and not yet released
LiveArrays == {thr[t].tmp : t \in Threads} \ {0}

\* one pass of the loop of reconstruct_n
thr_reconstruct_n_step(th) ==
    IF ~(th.i < th.ni) THEN [th EXCEPT !.pc = "done"]
    ELSE LET m2 == reconstruct(th.i0 + th.i, th.m, th.i * bin.d)
         IN  IF m2.res = "error" THEN [th EXCEPT !.m = m2, !.pc = "done"]
             ELSE [th EXCEPT !.m = m2, !.i = @ + 1]

\* search_and_reconstruct: the search call, then one slot per step
thr_search_and_reconstruct_step(th) ==
    IF th.pc = "search"
    THEN IF th.sr.res = "error"
         THEN [th EXCEPT !.m.res = "error", !.pc = "done"]
         ELSE [th EXCEPT !.labels = th.sr.labels, !.pc = "loop"]
    ELSE IF ~(th.i < th.n) THEN [th EXCEPT !.pc = "done"]
    ELSE IF ~(th.j < th.k) THEN [th EXCEPT !.i = @ + 1, !.j = 0]
    ELSE LET m2 == search_and_reconstruct_slot(th.k, th.labels, th.i, th.j,
                                               th.m)
         IN  IF m2.res = "error" THEN [th EXCEPT !.m = m2, !.pc = "done"]
             ELSE [th EXCEPT !.m = m2, !.j = @ + 1]

\* assign: the allocation, the search call, the release by the ScopeDeleter
thr_assign_step(th, live) ==
    IF th.pc = "new"
    THEN [th EXCEPT !.tmp = operator_new(live), !.pc = "search"]
    ELSE IF th.pc = "search"
    THEN [th EXCEPT !.labels = th.sr.labels, !.res = th.sr.res, !.pc = "free"]
    ELSE [th EXCEPT !.tmp = 0, !.pc = "done"]

\* compute_residual: the reconstruct call, then one byte per step
thr_compute_residual_step(th) ==
    IF th.pc = "reconstruct"
    THEN LET m1 == reconstruct(th.key, th.m, 0)
         IN  IF m1.res = "error" THEN [th EXCEPT !.m = m1, !.pc = "done"]
             ELSE [th EXCEPT !.m = m1, !.pc = "loop"]
    ELSE IF ~(th.i < bin.d) THEN [th EXCEPT !.pc = "done"]
    ELSE [th EXCEPT !.m.buf[th.i] = (XBuf(th.x)[th.i] - th.m.buf[th.i]) % 256,
                    !.m.written = @ \cup {th.i},
                    !.i = @ + 1]

\* the calls a thread may start on the index as it is
ThreadCalls ==
    {[IdleThread EXCEPT !.op = "reconstruct_n", !.pc = "loop", !.i0 = r[1],
                        !.ni = r[2], !.g = 7, !.m = Mem(r[2] * bin.d, 7)] :
        r \in {v \in (0 .. 1) \X (0 .. 2) :
                  sub.reconstruct => v[1] + v[2] <= bin.ntotal}}
    \cup
    UNION {{[IdleThread EXCEPT !.op = op, !.n = sh[1], !.k = sh[2],
                !.pc = IF op = "assign" THEN "new" ELSE "search",
                !.x = 1, !.g = 7, !.sr = sr,
                !.m = Mem(IF op = "assign" THEN 0
                          ELSE sh[1] * sh[2] * bin.d, 7)] :
              sr \in SearchOutcomes(sh[1], sh[2]),
              op \in {"assign", "search_and_reconstruct"}} :
           sh \in {<<1, 1>>, <<1, 2>>, <<2, 1>>}}
    \cup
    {[IdleThread EXCEPT !.op = "compute_residual", !.pc = "reconstruct",
                        !.key = key, !.x = p, !.g = 7, !.m = Mem(bin.d, 7)] :
        key \in Keys, p \in XPatterns}

\* the index the threads share: it holds two codes
InitThreads ==
    /\ \E dd \in Dims : bin = [IndexBinary_ctor(dd, "METRIC_L2")
                                  EXCEPT !.ntotal = 2]
    /\ \E c1 \in CodePatterns, c2 \in CodePatterns :
          /\ c1[1] < c2[1]
          /\ xb = <<[i \in 1 .. code_size(bin.d) |-> c1[i]],
                    [i \in 1 .. code_size(bin.d) |-> c2[i]]>>
    /\ sub \in [reconstruct : BOOLEAN]
    /\ bcall = NoCall
    /\ bpre = bin
    /\ thr = [t \in Threads |-> IdleThread]

\* a thread's step leaves the other parts alone; the reading methods are const
ThrFrame == UNCHANGED <<binvars, gpuvars, knnvars>>

ThrStart ==
    /\ \E t \in Threads :
          /\ thr[t].pc = "idle"
          /\ \E call \in ThreadCalls : thr' = [thr EXCEPT ![t] = call]
    /\ ThrFrame

ThrStep ==
    /\ \E t \in Threads :
          /\ thr[t].pc \notin {"idle", "done"}
          /\ thr' = [thr EXCEPT ![t] =
                IF @.op = "reconstruct_n" THEN thr_reconstruct_n_step(@)
                ELSE IF @.op = "search_and_reconstruct"
                THEN thr_search_and_reconstruct_step(@)
                ELSE IF @.op = "assign" THEN thr_assign_step(@, LiveArrays)
                ELSE thr_compute_residual_step(@)]
    /\ ThrFrame

\* the caller takes the outputs
ThrReturn ==
    /\ \E t \in Threads :
          /\ thr[t].pc = "done"
          /\ thr' = [thr EXCEPT ![t] = IdleThread]
    /\ ThrFrame

NextThreads ==
    \/ ThrStart
    \/ ThrStep
    \/ ThrReturn

(***************************************************************************)
(* GpuIndexIVFFlat.                                                        *)
(*                                                                         *)
(* A method works on an effect e: the object e.g, the outcome so far e.res *)
(* ("ok", "error": an exception, "abort": a failed FAISS_ASSERT), the      *)
(* lines printed e.out and the ids e.added handed to stored vectors.  A    *)
(* step after a failed one does not run.  fail names the collaborator call *)
(* that throws in this execution, if any.                                  *)
(***************************************************************************)
INT_MAX == 2147483647

\* A 64-bit idx_t n is written [q, r] with n = q * 2^31 + r and 0 <= r < 2^31
\* (the checker's integers are 32 bits wide).
Idx(q, r) == [q |-> q, r |-> r]

\* n <= (idx_t) std::numeric_limits<int>::max()
LeqIntMax(n) == n.q < 0 \/ (n.q = 0 /\ n.r <= INT_MAX)

\* the batch sizes given to train: 1, INT_MAX and INT_MAX + 1
TrainSizes == {Idx(0, 1), Idx(0, INT_MAX), Idx(1, 0)}

FailPoints ==
    {"none", "verifyIVFSettings_", "trainQuantizer_", "new", "updateQuantizer",
     "reserveMemory"}

NoQuantizer == [present |-> FALSE, is_trained |-> FALSE]

NoIndex ==
    [exists |-> FALSE, kind |-> "none", useResidual |-> FALSE,
     scalarQ |-> FALSE, quantizer |-> NoQuantizer, reserved |-> 0,
     ids |-> <<>>]

Effect(g) == [g |-> g, res |-> "ok", out |-> <<>>, added |-> <<>>]

Throw(e) == [e EXCEPT !.res = "error"]

\* FAISS_ASSERT: the process aborts when the condition is false
FAISS_ASSERT(e, cond) == IF cond THEN e ELSE [e EXCEPT !.res = "abort"]

printf(e, line) == [e EXCEPT !.out = Append(@, line)]

\* GpuIndexIVF's constructor: with no coarse quantizer it makes an empty flat
\* one and the index is untrained; with one, the index is trained when the
\* quantizer is.  ctor is history: the constructor used.
GpuIndexIVF_ctor(coarseQuantizer, dims, nlist, config) ==
    [d |-> dims,
     nlist |-> nlist,
     indicesOptions |-> config.indicesOptions,
     is_trained |-> coarseQuantizer.present /\ coarseQuantizer.is_trained,
     ntotal |-> 0,
     quantizer |-> IF coarseQuantizer.present THEN coarseQuantizer
                   ELSE [present |-> TRUE, is_trained |-> FALSE],
     index_ |-> NoIndex,
     baseIndex_ |-> FALSE,
     reserveMemoryVecs_ |-> 0,
     use_raft |-> config.use_raft,
     ctor |-> "none"]

\* GpuIndexIVF::verifyIVFSettings_: throws when the quantizer does not fit
verifyIVFSettings_(e, fail) ==
    IF e.res # "ok" THEN e
    ELSE IF fail = "verifyIVFSettings_" \/ ~e.g.quantizer.present THEN Throw(e)
    ELSE e

\* GpuIndexIVF::trainQuantizer_: trains the coarse quantizer on the batch
trainQuantizer_(e, n, fail) ==
    IF e.res # "ok" THEN e
    ELSE IF fail = "trainQuantizer_" THEN Throw(e)
    ELSE [e EXCEPT !.g.quantizer.is_trained = TRUE]

\* IVFBase::updateQuantizer of the underlying index
IVFBase_updateQuantizer(e, fail) ==
    IF e.res # "ok" THEN e
    ELSE IF fail = "updateQuantizer" THEN Throw(e)
    ELSE [e EXCEPT !.g.index_.quantizer = e.g.quantizer]

\* IVFBase::reserveMemory of the underlying index
IVFBase_reserveMemory(e, numVecs, fail) ==
    IF e.res # "ok" THEN e
    ELSE IF fail = "reserveMemory" THEN Throw(e)
    ELSE [e EXCEPT !.g.index_.reserved = numVecs]

\* IVFBase::reset of the underlying index: the lists are emptied
IVFBase_reset(e) ==
    IF e.res # "ok" THEN e
    ELSE [e EXCEPT !.g.index_.ids = <<>>]

\* IVFBase::copyInvertedListsFrom
IVFBase_copyInvertedListsFrom(e, ids) ==
    IF e.res # "ok" THEN e
    ELSE [e EXCEPT !.g.index_.ids = ids]

\* GpuIndex::add_with_ids: n vectors are stored under the given ids
GpuIndex_add_with_ids(e, n, ids) ==
    IF e.res # "ok" THEN e
    ELSE IF ~e.g.is_trained THEN Throw(e)
    ELSE IF ~e.g.index_.exists THEN [e EXCEPT !.res = "abort"]
    ELSE [e EXCEPT !.g.index_.ids = @ \o ids,
                   !.g.ntotal = @ + n,
                   !.added = @ \o ids]

\* GpuIndex::add: the i-th vector gets the label ntotal + i
GpuIndex_add(e, n) ==
    GpuIndex_add_with_ids(e, n, [i \in 1 .. n |-> e.g.ntotal + i - 1])

\* GpuIndexIVF::copyFrom: the base fields and the coarse quantizer
GpuIndexIVF_copyFrom(e, index) ==
    IF e.res # "ok" THEN e
    ELSE [e EXCEPT !.g.d = index.d,
                   !.g.nlist = index.nlist,
                   !.g.ntotal = index.ntotal,
                   !.g.is_trained = index.is_trained,
                   !.g.quantizer = [present |-> TRUE,
                                    is_trained |-> index.is_trained]]

(***************************************************************************)
(* The methods of GpuIndexIVFFlat.cu.                                      *)
(***************************************************************************)
GpuIndexIVFFlat_updateQuantizer(e, fail) ==
    IF e.res # "ok" THEN e
    ELSE IF ~e.g.quantizer.present THEN Throw(e)
    ELSE IF e.g.index_.exists THEN IVFBase_updateQuantizer(e, fail)
    ELSE e

set_index_(e, useResidual, scalarQ, fail) ==
    IF e.res # "ok" THEN e
    ELSE LET e1 == IF e.g.use_raft
                   THEN printf(e, "Setting RaftIVFFlat index") ELSE e
             made == [exists |-> TRUE,
                      kind |-> IF e.g.use_raft THEN "RaftIVFFlat" ELSE "IVFFlat",
                      useResidual |-> useResidual,
                      scalarQ |-> scalarQ,
                      quantizer |-> NoQuantizer,
                      reserved |-> 0,
                      ids |-> <<>>]
             e2 == IF fail = "new" THEN Throw(e1)
                   ELSE [e1 EXCEPT !.g.index_ = made, !.g.baseIndex_ = TRUE]
         IN  GpuIndexIVFFlat_updateQuantizer(e2, fail)

GpuIndexIVFFlat_reserveMemory(e, numVecs, fail) ==
    LET e1 == [e EXCEPT !.g.reserveMemoryVecs_ = numVecs]
    IN  IF e1.g.index_.exists THEN IVFBase_reserveMemory(e1, numVecs, fail)
        ELSE e1

GpuIndexIVFFlat_copyFrom(e, index, fail) ==
    LET e1 == printf(e, "Inside copyFrom")
        e2 == GpuIndexIVF_copyFrom(e1, index)
        e3 == [e2 EXCEPT !.g.index_ = NoIndex, !.g.baseIndex_ = FALSE]
    IN  IF ~index.is_trained
        THEN FAISS_ASSERT(e3, ~e3.g.is_trained)
        ELSE LET e4 == FAISS_ASSERT(e3, e3.g.is_trained)
                 e5 == set_index_(e4, FALSE, FALSE, fail)
             IN  IF e5.res # "ok" THEN e5
                 ELSE IF e5.g.use_raft
                 THEN LET e6 == printf(e5, "Reconstructing original vectors")
                          nt == e6.g.ntotal
                      IN  IF nt > 0
                          THEN GpuIndex_add_with_ids(e6, nt,
                                   [i \in 1 .. nt |-> i - 1])
                          ELSE e6
                 ELSE IVFBase_copyInvertedListsFrom(
                          printf(e5, "Copying inverted lists"), index.ids)

sizeof_float == 4

\* GpuIndexIVF::copyTo: the base fields go to the CPU index
GpuIndexIVF_copyTo(g, index) ==
    [index EXCEPT !.d = g.d, !.nlist = g.nlist, !.ntotal = g.ntotal,
                  !.is_trained = g.is_trained]

\* new ArrayInvertedLists(nlist, code_size): nlist empty lists
ArrayInvertedLists(nlist, cs) ==
    [nlist |-> nlist, code_size |-> cs, ids |-> <<>>, made |-> "copyTo"]

\* IVFBase::copyInvertedListsTo: the stored vectors go to the list set
IVFBase_copyInvertedListsTo(g, ivf) == [ivf EXCEPT !.ids = g.index_.ids]

\* a variant of copyTo that looks at indicesOptions after the lists have been
\* replaced
GpuIndexIVFFlat_copyTo_late_check(g, index, fail) ==
    LET i1 == GpuIndexIVF_copyTo(g, index)
        i2 == [i1 EXCEPT !.code_size = g.d * sizeof_float]
        ivf == ArrayInvertedLists(g.nlist, i2.code_size)
        i3 == [i2 EXCEPT !.invlists = ivf]
    IN  IF ~(g.indicesOptions # "INDICES_IVF")
        THEN [res |-> "error", index |-> i3]
        ELSE IF ~g.index_.exists THEN [res |-> "ok", index |-> i3]
        ELSE IF fail = "copyInvertedListsTo"
        THEN [res |-> "error", index |-> i3]
        ELSE [res |-> "ok",
              index |-> [i3 EXCEPT
                            !.invlists = IVFBase_copyInvertedListsTo(g, ivf)]]

\* copyTo is const: it yields the outcome and the CPU index after the call
GpuIndexIVFFlat_copyTo(g, index, fail) ==
    IF ~(g.indicesOptions # "INDICES_IVF")
    THEN [res |-> "error", index |-> index]
    ELSE LET i1 == GpuIndexIVF_copyTo(g, index)
             i2 == [i1 EXCEPT !.code_size = g.d * sizeof_float]
             ivf == ArrayInvertedLists(g.nlist, i2.code_size)
             i3 == [i2 EXCEPT !.invlists = ivf]
         IN  IF ~g.index_.exists THEN [res |-> "ok", index |-> i3]
             ELSE IF fail = "copyInvertedListsTo"
             THEN [res |-> "error", index |-> i3]
             ELSE [res |-> "ok",
                   index |-> [i3 EXCEPT
                        !.invlists = IVFBase_copyInvertedListsTo(g, ivf)]]

GpuIndexIVFFlat_reclaimMemory(e) == e

\* a variant that forgets to clear ntotal
GpuIndexIVFFlat_reset_keeps_ntotal(e) ==
    IF e.g.index_.exists THEN IVFBase_reset(e)
    ELSE FAISS_ASSERT(e, e.g.ntotal = 0)

GpuIndexIVFFlat_reset(e) ==
    IF e.g.index_.exists
    THEN LET e1 == IVFBase_reset(e)
         IN  [e1 EXCEPT !.g.ntotal = 0]
    ELSE FAISS_ASSERT(e, e.g.ntotal = 0)

\* a variant that marks the index trained before the IVF index is built
GpuIndexIVFFlat_train_early(e, n, fail) ==
    LET e1 == IF LeqIntMax(n) THEN e ELSE Throw(e)
        e2 == verifyIVFSettings_(e1, fail)
    IN  IF e2.res # "ok" THEN e2
        ELSE IF e2.g.is_trained THEN FAISS_ASSERT(e2, e2.g.index_.exists)
        ELSE IF e2.g.index_.exists THEN FAISS_ASSERT(e2, FALSE)
        ELSE LET e3 == [e2 EXCEPT !.g.is_trained = TRUE]
                 e4 == trainQuantizer_(e3, n, fail)
                 e5 == set_index_(e4, FALSE, FALSE, fail)
             IN  IF e5.res = "ok" /\ e5.g.reserveMemoryVecs_ # 0
                 THEN IVFBase_reserveMemory(e5, e5.g.reserveMemoryVecs_, fail)
                 ELSE e5

GpuIndexIVFFlat_train(e, n, fail) ==
    LET e1 == IF LeqIntMax(n) THEN e ELSE Throw(e)
        e2 == verifyIVFSettings_(e1, fail)
    IN  IF e2.res # "ok" THEN e2
        ELSE IF e2.g.is_trained THEN FAISS_ASSERT(e2, e2.g.index_.exists)
        ELSE IF e2.g.index_.exists THEN FAISS_ASSERT(e2, FALSE)
        ELSE LET e3 == trainQuantizer_(e2, n, fail)
                 e4 == set_index_(e3, FALSE, FALSE, fail)
                 e5 == IF e4.res = "ok" /\ e4.g.reserveMemoryVecs_ # 0
                       THEN IVFBase_reserveMemory(e4, e4.g.reserveMemoryVecs_,
                                                  fail)
                       ELSE e4
             IN  IF e5.res # "ok" THEN e5
                 ELSE [e5 EXCEPT !.g.is_trained = TRUE]

(***************************************************************************)
(* The three constructors.                                                 *)
(***************************************************************************)
\* the CPU indexes given to copyFrom: an untrained one holds nothing; a trained
\* one holds its vectors under the ids 0, 1, ... (added with add) or under ids
\* of the caller's choice (added with add_with_ids)
CpuIndexes ==
    {[d |-> 4, nlist |-> 2, is_trained |-> FALSE, ntotal |-> 0, ids |-> <<>>]}
    \cup
    {[d |-> 4, nlist |-> 2, is_trained |-> TRUE, ntotal |-> nt,
      ids |-> [i \in 1 .. nt |-> base + i]] :
        nt \in 0 .. MaxCpu, base \in {-1, 10}}

\* the configurations an index is made with
GpuConfigs ==
    [use_raft : BOOLEAN, indicesOptions : {"INDICES_IVF", "INDICES_64_BIT"}]

\* GpuIndexIVFFlat(provider, dims, nlist, metric, config)
GpuIndexIVFFlat_ctor_dims(dims, nlist, config) ==
    Effect([GpuIndexIVF_ctor(NoQuantizer, dims, nlist, config)
               EXCEPT !.ctor = "dims"])

\* GpuIndexIVFFlat(provider, coarseQuantizer, dims, nlist, metric, config)
GpuIndexIVFFlat_ctor_quantizer(coarseQuantizer, dims, nlist, config) ==
    LET e == Effect([GpuIndexIVF_ctor(coarseQuantizer, dims, nlist, config)
                        EXCEPT !.ctor = "quantizer"])
    IN  IF e.g.is_trained
        THEN LET e1 == FAISS_ASSERT(e, e.g.quantizer.present)
                 e2 == set_index_(e1, FALSE, FALSE, "none")
             IN  GpuIndexIVFFlat_updateQuantizer(e2, "none")
        ELSE e

\* GpuIndexIVFFlat(provider, index, config)
GpuIndexIVFFlat_ctor_index(index, config) ==
    GpuIndexIVFFlat_copyFrom(
        Effect([GpuIndexIVF_ctor(NoQuantizer, index.d, index.nlist, config)
                   EXCEPT !.ctor = "index"]),
        index, "none")

\* no CPU index is an argument of the call
NoCpuIndex ==
    [d |-> 4, nlist |-> 2, is_trained |-> FALSE, ntotal |-> 0, ids |-> <<>>]

\* op is the last call and prev the one before it; idle says that the caller
\* has taken the results of the last call; index is the CPU index given to it
\* and fail the collaborator call that threw in it (for copyTo: the one that
\* was to throw)
\* the CPU indexes given to copyTo: each has lists of its own
CopyTargets ==
    {[d |-> 8, nlist |-> 1, is_trained |-> t, ntotal |-> Len(ids),
      code_size |-> 8 * sizeof_float,
      invlists |-> [nlist |-> 1, code_size |-> 8 * sizeof_float, ids |-> ids,
                    made |-> "caller"]] :
        t \in {TRUE}, ids \in {<<>>, <<7>>}}

\* no CPU index is the target of the call
NoTarget ==
    [d |-> 0, nlist |-> 0, is_trained |-> FALSE, ntotal |-> 0, code_size |-> 0,
     invlists |-> [nlist |-> 0, code_size |-> 0, ids |-> <<>>,
                   made |-> "caller"]]

NoGpuCall ==
    [op |-> "ctor", prev |-> "ctor", idle |-> FALSE, res |-> "ok", n |-> 0,
     out |-> <<>>, added |-> <<>>, index |-> NoCpuIndex, fail |-> "none",
     target |-> NoTarget, copied |-> NoTarget]

GpuCall(op, n, e) ==
    [op |-> op, prev |-> gcall.op, idle |-> FALSE, res |-> e.res, n |-> n,
     out |-> e.out, added |-> e.added, index |-> NoCpuIndex, fail |-> "none",
     target |-> NoTarget, copied |-> NoTarget]

InitGpu ==
    /\ \E config \in GpuConfigs :
          \E e \in {GpuIndexIVFFlat_ctor_dims(4, 2, config)}
                   \cup {GpuIndexIVFFlat_ctor_quantizer(
                             [present |-> TRUE, is_trained |-> t], 4, 2,
                             config) :
                         t \in BOOLEAN}
                   \cup {GpuIndexIVFFlat_ctor_index(index, config) :
                         index \in CpuIndexes} :
              /\ e.res = "ok"
              /\ gpu = e.g
              /\ gcall = [NoGpuCall EXCEPT !.out = e.out, !.added = e.added]
              /\ gpre = e.g

\* a GpuIndexIVFFlat call leaves the other objects alone
GpuFrame == UNCHANGED <<binvars, knnvars, thrvars>>

\* a call can be made: the last one has returned and no assertion has failed
GpuAlive == gcall.idle /\ gcall.res # "abort"

\* the caller takes the results of the last call
GpuReturn ==
    /\ ~gcall.idle
    /\ gcall.res # "abort"
    /\ gcall' = [NoGpuCall EXCEPT !.op = gcall.op, !.prev = gcall.op,
                                  !.idle = TRUE]
    /\ gpre' = gpu
    /\ UNCHANGED gpu
    /\ GpuFrame

GpuTrain ==
    /\ GpuAlive
    /\ \E n \in TrainSizes, fail \in FailPoints :
          LET e == GpuIndexIVFFlat_train(Effect(gpu), n, fail)
          IN  /\ gpu' = e.g
              /\ gcall' = [GpuCall("train", n.q, e) EXCEPT !.fail =
                              IF e.res = "error" /\ LeqIntMax(n) THEN fail
                              ELSE "none"]
    /\ gpre' = gpu
    /\ GpuFrame

GpuReset ==
    /\ GpuAlive
    /\ LET e == GpuIndexIVFFlat_reset(Effect(gpu))
       IN  /\ gpu' = e.g
           /\ gcall' = GpuCall("reset", 0, e)
    /\ gpre' = gpu
    /\ GpuFrame

GpuReserveMemory ==
    /\ GpuAlive
    /\ \E numVecs \in 0 .. MaxReserve, fail \in {"none", "reserveMemory"} :
          LET e == GpuIndexIVFFlat_reserveMemory(Effect(gpu), numVecs, fail)
          IN  /\ gpu' = e.g
              /\ gcall' = GpuCall("reserveMemory", numVecs, e)
    /\ gpre' = gpu
    /\ GpuFrame

GpuReclaimMemory ==
    /\ GpuAlive
    /\ LET e == GpuIndexIVFFlat_reclaimMemory(Effect(gpu))
       IN  /\ gpu' = e.g
           /\ gcall' = GpuCall("reclaimMemory", 0, e)
    /\ gpre' = gpu
    /\ GpuFrame

GpuUpdateQuantizer ==
    /\ GpuAlive
    /\ \E fail \in {"none", "updateQuantizer"} :
          LET e == GpuIndexIVFFlat_updateQuantizer(Effect(gpu), fail)
          IN  /\ gpu' = e.g
              /\ gcall' = GpuCall("updateQuantizer", 0, e)
    /\ gpre' = gpu
    /\ GpuFrame

GpuCopyFrom ==
    /\ GpuAlive
    /\ \E index \in CpuIndexes, fail \in {"none", "new", "updateQuantizer"} :
          LET e == GpuIndexIVFFlat_copyFrom(Effect(gpu), index, fail)
          IN  /\ gpu' = e.g
              /\ gcall' = [GpuCall("copyFrom", index.ntotal, e)
                              EXCEPT !.index = index, !.fail =
                                  IF e.res = "error" THEN fail ELSE "none"]
    /\ gpre' = gpu
    /\ GpuFrame

\* target is the CPU index before the call and copied the same index after it
GpuCopyTo ==
    /\ GpuAlive
    /\ \E index \in CopyTargets, fail \in {"none", "copyInvertedListsTo"} :
          LET r == GpuIndexIVFFlat_copyTo(gpu, index, fail)
          IN  gcall' = [GpuCall("copyTo", 0, [Effect(gpu) EXCEPT !.res = r.res])
                           EXCEPT !.fail = fail, !.target = index,
                                  !.copied = r.index]
    /\ gpre' = gpu
    /\ UNCHANGED gpu
    /\ GpuFrame

GpuAdd ==
    /\ GpuAlive
    /\ \E n \in 1 .. 2 :
          /\ gpu.ntotal + n <= MaxTotal
          /\ LET e == GpuIndex_add(Effect(gpu), n)
             IN  /\ gpu' = e.g
                 /\ gcall' = GpuCall("add", n, e)
    /\ gpre' = gpu
    /\ GpuFrame

NextGpu ==
    \/ GpuTrain
    \/ GpuReset
    \/ GpuReserveMemory
    \/ GpuReclaimMemory
    \/ GpuUpdateQuantizer
    \/ GpuCopyFrom
    \/ GpuCopyTo
    \/ GpuAdd
    \/ GpuReturn

(***************************************************************************)
(* bfKnn (GpuDistance.cu).  A pointer argument is TRUE when it is not      *)
(* null.  The outcome of a call: res, the search that was run (if any) and  *)
(* whether the caller's outDistances and outIndices were written.          *)
(***************************************************************************)
\* devices the machine has
NumDevices == 1

KnnOutcome(res, search, wroteDistances, wroteIndices) ==
    [res |-> res, search |-> search, wroteDistances |-> wroteDistances,
     wroteIndices |-> wroteIndices]

KnnThrow == KnnOutcome("error", "none", FALSE, FALSE)

\* bfKnnConvert<T>: the argument checks, the device, then the search
bfKnnConvert(T, args) ==
    IF ~(args.k > 0 \/ args.k = -1) THEN KnnThrow
    ELSE IF ~(args.dims > 0) THEN KnnThrow
    ELSE IF ~(args.numVectors > 0) THEN KnnThrow
    ELSE IF ~args.vectors THEN KnnThrow
    ELSE IF ~(args.numQueries > 0) THEN KnnThrow
    ELSE IF ~args.queries THEN KnnThrow
    ELSE IF ~args.outDistances THEN KnnThrow
    ELSE IF ~(args.outIndices \/ args.k = -1) THEN KnnThrow
    ELSE IF args.device # -1 /\ ~(args.device >= 0 /\ args.device < NumDevices)
    THEN KnnThrow
    ELSE IF args.k = -1
    THEN KnnOutcome("ok", "allPairwiseDistanceOnDevice", TRUE, FALSE)
    ELSE IF args.outIndicesType = "I64"
    THEN KnnOutcome("ok", "bfKnnOnDevice", TRUE, TRUE)
    ELSE IF args.outIndicesType = "I32"
    THEN KnnOutcome("ok", "bfKnnOnDevice", TRUE, TRUE)
    ELSE KnnThrow

\* what the argument checks of bfKnnConvert reject
InvalidArgs(args) ==
    \/ args.k <= 0 /\ args.k # -1
    \/ args.dims <= 0
    \/ args.numVectors <= 0
    \/ args.numQueries <= 0
    \/ ~args.vectors
    \/ ~args.queries
    \/ ~args.outDistances
    \/ ~args.outIndices /\ args.k # -1

\* the branch of bfKnn compiled with USE_NVIDIA_RAFT: the arguments go to the
\* RAFT search unchecked.  lib is what the RAFT library does with them: with
\* valid arguments it returns; with others it may return, throw or crash.  The
\* write-back buffers copy to outIndices and outDistances when they are
\* released.
bfKnnRaft(args, lib) ==
    LET search == IF args.queriesRowMajor
                  THEN IF args.k <= 64 /\ args.metric = "METRIC_L2"
                          /\ args.numVectors > 0
                       THEN "fused_l2_knn" ELSE "knn"
                  ELSE "knn"
    IN  IF lib = "ok"
        THEN KnnOutcome("ok", search, args.outDistances, args.outIndices)
        ELSE KnnOutcome(lib, search, FALSE, FALSE)

\* the outcomes of the RAFT library for these arguments: the branch reads
\* vectors and queries as float and writes outIndices as idx_t whatever
\* vectorType and outIndicesType say, so with other types it works on buffers
\* of another element size
RaftOutcomes(args) ==
    IF \/ InvalidArgs(args)
       \/ args.k = -1
       \/ args.vectorType # "F32"
       \/ args.outIndicesType # "I64"
    THEN {"ok", "error", "abort"}
    ELSE {"ok"}

bfKnn(args, USE_NVIDIA_RAFT, lib) ==
    IF args.vectorType # args.queryType THEN KnnThrow
    ELSE IF USE_NVIDIA_RAFT /\ args.use_raft
            /\ args.queriesRowMajor = args.vectorsRowMajor
    THEN bfKnnRaft(args, lib)
    ELSE IF ~USE_NVIDIA_RAFT /\ args.use_raft THEN KnnThrow
    ELSE IF args.vectorType = "F32" THEN bfKnnConvert("float", args)
    ELSE IF args.vectorType = "F16" THEN bfKnnConvert("half", args)
    ELSE KnnThrow

\* the arguments tried
KnnArgs ==
    [k : {-1, 0, 1}, dims : {0, 1}, numVectors : {0, 1}, numQueries : {0, 1},
     vectors : BOOLEAN, queries : BOOLEAN, outDistances : BOOLEAN,
     outIndices : BOOLEAN, vectorType : {"F32", "F16", "other"},
     queryType : {"F32", "F16", "other"}, outIndicesType : {"I64", "I32", "other"},
     vectorsRowMajor : BOOLEAN, queriesRowMajor : BOOLEAN,
     metric : {"METRIC_L2", "METRIC_Lp"}, device : {-1, 1},
     use_raft : BOOLEAN]

NoKnnCall ==
    [op |-> "none", args |-> [k |-> 0], out |-> KnnThrow]

InitKnn ==
    /\ kbuild \in [USE_NVIDIA_RAFT : BOOLEAN]
    /\ kcall = NoKnnCall

KnnFrame == UNCHANGED <<binvars, gpuvars, thrvars>>

KnnBfKnn ==
    /\ kcall.op = "none"
    /\ \E args \in KnnArgs :
          \E lib \in RaftOutcomes(args) :
              kcall' = [op |-> "bfKnn", args |-> args,
                        out |-> bfKnn(args, kbuild.USE_NVIDIA_RAFT, lib)]
    /\ UNCHANGED kbuild
    /\ KnnFrame

\* the caller takes the results
KnnReturn ==
    /\ kcall.op # "none"
    /\ kcall.out.res # "abort"
    /\ kcall' = NoKnnCall
    /\ UNCHANGED kbuild
    /\ KnnFrame

NextKnn ==
    \/ KnnBfKnn
    \/ KnnReturn

(***************************************************************************)
(* Properties of bfKnn.                                                    *)
(***************************************************************************)
\* C10: a bfKnn call with an invalid argument (k <= 0 other than -1,
\* dims <= 0, numVectors <= 0, numQueries <= 0, a null vectors, queries or
\* outDistances, a null outIndices while k # -1) fails with an exception, runs
\* no search and writes nothing to outDistances or outIndices.
C10_InvalidArgsFail ==
    (kcall.op = "bfKnn" /\ InvalidArgs(kcall.args)) =>
        /\ kcall.out.res = "error"
        /\ kcall.out.search = "none"
        /\ ~kcall.out.wroteDistances
        /\ ~kcall.out.wroteIndices

\* C10 on the paths that go through bfKnnConvert: there the invalid call fails
\* before any search
C10_ConvertPathFails ==
    (/\ kcall.op = "bfKnn"
     /\ InvalidArgs(kcall.args)
     /\ ~(kbuild.USE_NVIDIA_RAFT /\ kcall.args.use_raft
            /\ kcall.args.queriesRowMajor = kcall.args.vectorsRowMajor)) =>
        /\ kcall.out.res = "error"
        /\ kcall.out.search = "none"
        /\ ~kcall.out.wroteDistances
        /\ ~kcall.out.wroteIndices

\* the type and backend combinations bfKnn does not support
Unsupported(args, USE_NVIDIA_RAFT) ==
    \/ args.vectorType # args.queryType
    \/ args.vectorType \notin {"F32", "F16"}
    \/ args.outIndicesType \notin {"I64", "I32"} /\ args.k # -1
    \/ args.use_raft /\ ~USE_NVIDIA_RAFT

\* the call is dispatched to the RAFT branch of bfKnn
TakesRaftBranch ==
    /\ kbuild.USE_NVIDIA_RAFT
    /\ kcall.args.use_raft
    /\ kcall.args.queriesRowMajor = kcall.args.vectorsRowMajor

\* C21: a bfKnn call with an unsupported type or backend combination
\* (vectorType # queryType, a vectorType that is neither F32 nor F16, an
\* outIndicesType that is neither I64 nor I32 while k # -1, use_raft in a build
\* without RAFT) ends in an exception, runs no search and does not write
\* outIndices.
C21_UnsupportedRejected ==
    (kcall.op = "bfKnn" /\ Unsupported(kcall.args, kbuild.USE_NVIDIA_RAFT)) =>
        /\ kcall.out.res = "error"
        /\ kcall.out.search = "none"
        /\ ~kcall.out.wroteIndices

\* C21 on the calls that are not dispatched to the RAFT branch: there every
\* unsupported combination is rejected
C21_RejectedOutsideRaftBranch ==
    (/\ kcall.op = "bfKnn"
     /\ Unsupported(kcall.args, kbuild.USE_NVIDIA_RAFT)
     /\ (kcall.args.vectorType # kcall.args.queryType \/ ~TakesRaftBranch)) =>
        /\ kcall.out.res = "error"
        /\ kcall.out.search = "none"
        /\ ~kcall.out.wroteIndices

\* a RAFT search that returned for a call whose types bfKnn does not support
C21_RaftComputesUnsupported ==
    /\ kcall.op = "bfKnn"
    /\ kcall.args.vectorType = kcall.args.queryType
    /\ \/ kcall.args.vectorType \notin {"F32", "F16"}
       \/ kcall.args.outIndicesType \notin {"I64", "I32"}
    /\ ~InvalidArgs(kcall.args)
    /\ kcall.args.k # -1
    /\ kcall.out.res = "ok"
    /\ kcall.out.wroteIndices

(***************************************************************************)
(* Properties of IndexBinary.                                              *)
(***************************************************************************)
Slots == 0 .. bcall.n * bcall.k - 1

\* the reconstruct calls of the last call that were given output offset off
CallsAt(off) == {c \in 1 .. Len(bcall.calls) : bcall.calls[c].off = off}

C2_SlotsHandledOnce ==
    bcall.op = "search_and_reconstruct" =>
        /\ Len(bcall.searches) = 1
        /\ \A c \in 1 .. Len(bcall.calls) :
              \E s \in Slots :
                  /\ bcall.calls[c].off = s * bin.d
                  /\ bcall.calls[c].key = bcall.labels[s]
                  /\ bcall.labels[s] >= 0
        /\ \A s \in Slots : Cardinality(CallsAt(s * bin.d)) <= 1
        /\ bcall.res = "ok" =>
              \A s \in Slots :
                  IF bcall.labels[s] >= 0
                  THEN Cardinality(CallsAt(s * bin.d)) = 1
                  ELSE /\ CallsAt(s * bin.d) = {}
                       /\ \A b \in 0 .. bin.d - 1 :
                             bcall.buf[s * bin.d + b] = 255

\* a search of two queries with two neighbours each has returned with hits,
\* among them label 0, and with missing results
C2_Witness ==
    /\ bcall.op = "search_and_reconstruct"
    /\ bcall.res = "ok"
    /\ bcall.n = 2
    /\ bcall.k = 2
    /\ \E s \in Slots : bcall.labels[s] = 0
    /\ \E s \in Slots : bcall.labels[s] < 0
    /\ bcall.labels[3] >= 0

\* C3: assign makes exactly one search call, with its own n, x and k; the
\* caller's labels hold exactly what that search wrote; the caller sees no
\* distance and the temporary distance array is gone; assign fails exactly
\* when the search does.
C3_AssignIsSearch ==
    bcall.op = "assign" =>
        /\ Len(bcall.searches) = 1
        /\ bcall.searches[1].n = bcall.n
        /\ bcall.searches[1].x = bcall.x
        /\ bcall.searches[1].k = bcall.k
        /\ bcall.labels = bcall.searches[1].out.labels
        /\ bcall.res = bcall.searches[1].out.res
        /\ bcall.distances = <<>>
        /\ bcall.temps = 0

\* an assign of several slots has returned labels while its search reported
\* distances
C3_Witness ==
    /\ bcall.op = "assign"
    /\ bcall.res = "ok"
    /\ bcall.n * bcall.k >= 2
    /\ \E s \in Slots : bcall.labels[s] >= 0
    /\ DOMAIN bcall.searches[1].out.distances = Slots

\* C4: the output stride is ceil(d/8) bytes: reconstruct_n writes vector i0+i
\* at offset i*ceil(d/8) and touches only ni*ceil(d/8) bytes,
\* search_and_reconstruct writes slot (i, j) at offset (i*k+j)*ceil(d/8), and
\* compute_residual reads and writes only ceil(d/8) bytes.
C4_StrideIsCodeSize ==
    LET cs == code_size(bin.d)
    IN  /\ bcall.op = "reconstruct_n" =>
              /\ \A c \in 1 .. Len(bcall.calls) :
                    bcall.calls[c].off = (c - 1) * cs
              /\ bcall.written \subseteq 0 .. bcall.ni * cs - 1
        /\ bcall.op = "search_and_reconstruct" =>
              /\ \A c \in 1 .. Len(bcall.calls) :
                    \E s \in Slots :
                        /\ bcall.calls[c].off = s * cs
                        /\ bcall.calls[c].key = bcall.labels[s]
              /\ bcall.written \subseteq 0 .. bcall.n * bcall.k * cs - 1
        /\ bcall.op = "compute_residual" =>
              /\ bcall.xread \subseteq 0 .. cs - 1
              /\ bcall.written \subseteq 0 .. cs - 1

\* C5: compute_residual calls reconstruct exactly once, with its key and its
\* output buffer; if that call fails it fails, having written nothing;
\* otherwise each of the d positions it processes holds (x[i] - r[i]) mod 256,
\* r being the buffer as reconstruct left it, and x still holds its input.
C5_Residual ==
    bcall.op = "compute_residual" =>
        /\ Len(bcall.calls) = 1
        /\ bcall.calls[1].key = bcall.key
        /\ bcall.calls[1].off = 0
        /\ ~sub.reconstruct => (bcall.res = "error" /\ bcall.written = {})
        /\ sub.reconstruct => bcall.res = "ok"
        /\ bcall.res = "ok" =>
              /\ \A i \in 0 .. bin.d - 1 :
                    bcall.buf[i] = (bcall.xbuf[i] - bcall.after_rec[i]) % 256
              /\ bcall.written = 0 .. bin.d - 1
              /\ bcall.xread = 0 .. bin.d - 1

\* a residual of two-byte codes has been computed with a byte of x smaller than
\* the reconstructed byte, so that the difference wraps
C5_Witness ==
    /\ bcall.op = "compute_residual"
    /\ bcall.res = "ok"
    /\ bin.d = 16
    /\ \E i \in 0 .. 1 :
          /\ bcall.xbuf[i] < bcall.after_rec[i]
          /\ bcall.buf[i] = bcall.xbuf[i] - bcall.after_rec[i] + 256

(***************************************************************************)
(* Properties of GpuIndexIVFFlat.                                          *)
(***************************************************************************)
\* the call op has just ended: its results are still with the object
GpuJust(op) == gcall.op = op /\ ~gcall.idle

\* C6, as claimed: a new IndexBinary and a new GpuIndexIVFFlat made from
\* (dims, nlist, metric) have is_trained false and ntotal 0, and is_trained
\* becomes true only through training.
C6_AllBornUntrained ==
    /\ bcall.op = "ctor" => (~bin.is_trained /\ bin.ntotal = 0)
    /\ (gcall.op = "ctor" /\ gpu.ctor = "dims") =>
          (~gpu.is_trained /\ gpu.ntotal = 0)
    /\ (~gpre.is_trained /\ gpu.is_trained) =>
          (gcall.op = "train" /\ gcall.res = "ok")

\* C6, amended: a new IndexBinary has is_trained true and ntotal 0; a new
\* GpuIndexIVFFlat made from (dims, nlist, metric) has is_trained false and
\* ntotal 0, and the is_trained of a GpuIndexIVFFlat becomes true only through
\* a train call that returns normally or through copyFrom.
C6_BornTrainedOrNot ==
    /\ bcall.op = "ctor" => (bin.is_trained /\ bin.ntotal = 0)
    /\ (gcall.op = "ctor" /\ gpu.ctor = "dims") =>
          (~gpu.is_trained /\ gpu.ntotal = 0)
    /\ (~gpre.is_trained /\ gpu.is_trained) =>
          \/ gcall.op = "train" /\ gcall.res = "ok"
          \/ gcall.op = "copyFrom"

\* beside a new IndexBinary, an index made from (dims, nlist, metric) has been
\* trained by its first successful train
C6_Witness ==
    /\ bcall.op = "ctor"
    /\ bin.is_trained
    /\ gpu.ctor = "dims"
    /\ GpuJust("train")
    /\ gcall.res = "ok"
    /\ ~gpre.is_trained
    /\ gpu.is_trained

\* C7: when reset has returned, ntotal is 0, is_trained and the coarse
\* quantizer are as before the call, an underlying IVF index that existed
\* still exists, bound to the same quantizer, and holds nothing; an add that
\* follows a reset gives its vectors the ids 0, 1, ...
C7_Reset ==
    /\ (GpuJust("reset") /\ gcall.res = "ok") =>
          /\ gpu.ntotal = 0
          /\ gpu.is_trained = gpre.is_trained
          /\ gpu.quantizer = gpre.quantizer
          /\ gpu.index_.exists = gpre.index_.exists
          /\ gpu.index_.kind = gpre.index_.kind
          /\ gpu.index_.quantizer = gpre.index_.quantizer
          /\ gpu.index_.ids = <<>>
    /\ (GpuJust("add") /\ gcall.prev = "reset" /\ gcall.res = "ok") =>
          gcall.added = [i \in 1 .. gcall.n |-> i - 1]

\* reset has returned on a trained index that held vectors
C7_Witness ==
    /\ GpuJust("reset")
    /\ gcall.res = "ok"
    /\ gpre.ntotal > 0
    /\ gpre.is_trained
    /\ gpre.index_.exists
    /\ Len(gpre.index_.ids) > 0
    /\ gpre.index_.quantizer.is_trained

\* two vectors have been added right after a reset
C7_AddAfterReset ==
    /\ GpuJust("add")
    /\ gcall.prev = "reset"
    /\ gcall.res = "ok"
    /\ gcall.n = 2

\* C8: a train call on an untrained index that returns normally leaves
\* is_trained true and an underlying IVF index without residual and without
\* scalar quantizer, bound to the coarse quantizer, which is trained; a train
\* call on an untrained index that does not get through the construction
\* leaves is_trained false.
C8_TrainBuildsIndex ==
    (GpuJust("train") /\ ~gpre.is_trained) =>
        /\ gcall.res = "ok" =>
              /\ gpu.is_trained
              /\ gpu.index_.exists
              /\ ~gpu.index_.useResidual
              /\ ~gpu.index_.scalarQ
              /\ gpu.quantizer.present
              /\ gpu.quantizer.is_trained
              /\ gpu.index_.quantizer = gpu.quantizer
        /\ gcall.res # "ok" => ~gpu.is_trained
        /\ gpu.is_trained => gpu.index_.exists

\* train has returned normally on an untrained index for which memory had been
\* reserved
C8_Witness ==
    /\ GpuJust("train")
    /\ gcall.res = "ok"
    /\ ~gpre.is_trained
    /\ ~gpre.index_.exists
    /\ gpu.is_trained
    /\ gpu.reserveMemoryVecs_ > 0
    /\ gpu.index_.reserved = gpu.reserveMemoryVecs_

\* C9: a train call that fails on an untrained index leaves is_trained false
\* and no underlying IVF index, and no train call trips the assertion that no
\* index exists.
C9_FailedTrainResets ==
    /\ (GpuJust("train") /\ gcall.res = "error" /\ ~gpre.is_trained
            /\ ~gpre.index_.exists) =>
          (~gpu.is_trained /\ ~gpu.index_.exists)
    /\ (GpuJust("train") /\ ~gpre.is_trained) => gcall.res # "abort"

\* C11: when copyFrom of a trained CPU index that holds N vectors has
\* returned, ntotal is N and the underlying IVF index holds exactly N vectors,
\* under the ids they had in the CPU index, with and without use_raft.
C11_CopyFromKeepsVectors ==
    (GpuJust("copyFrom") /\ gcall.res = "ok" /\ gcall.index.is_trained) =>
        /\ gpu.ntotal = gcall.index.ntotal
        /\ gpu.index_.exists
        /\ Len(gpu.index_.ids) = gcall.index.ntotal
        /\ gpu.index_.ids = gcall.index.ids

\* C11 without use_raft: copyInvertedListsFrom brings the vectors over under
\* their ids and ntotal is the CPU index's
C11_NonRaftPath ==
    (GpuJust("copyFrom") /\ gcall.res = "ok" /\ gcall.index.is_trained
        /\ ~gpu.use_raft) =>
        /\ gpu.ntotal = gcall.index.ntotal
        /\ gpu.index_.exists
        /\ gpu.index_.ids = gcall.index.ids

\* C13: every call of the default train returns without error and leaves the
\* index as it was: the fields d, ntotal, is_trained and metric_type, the
\* stored codes and what the index overrides; so whatever is called next
\* starts from the state it would have started from without the train call.
C13_TrainIsNoOp ==
    [][BinTrain => (/\ bcall'.res = "ok"
                    /\ bin' = bin
                    /\ xb' = xb
                    /\ sub' = sub)]_vars

\* train has been called with an empty training set on an index that holds
\* codes
C13_Witness ==
    /\ bcall.op = "train"
    /\ bcall.n = 0
    /\ bcall.res = "ok"
    /\ bin.ntotal > 0
    /\ Len(xb) = bin.ntotal

\* C20: the c-th reconstruct call of reconstruct_n is for key i0 + c - 1, so
\* the keys are called in ascending order from i0, none twice and no other;
\* when reconstruct_n returns it has made exactly ni calls (none for ni <= 0);
\* with ni <= 0 it returns without a call and without writing, also on an
\* index without reconstruct; with ni > 0 on an index without reconstruct it
\* fails in its first call, for key i0, with the output buffer untouched.
C20_ReconstructNCalls ==
    bcall.op = "reconstruct_n" =>
        /\ \A c \in 1 .. Len(bcall.calls) : bcall.calls[c].key = bcall.i0 + c - 1
        /\ Len(bcall.calls) <= (IF bcall.ni > 0 THEN bcall.ni ELSE 0)
        /\ bcall.res = "ok" =>
              Len(bcall.calls) = (IF bcall.ni > 0 THEN bcall.ni ELSE 0)
        /\ bcall.ni <= 0 =>
              (bcall.res = "ok" /\ bcall.calls = <<>> /\ bcall.written = {})
        /\ (bcall.ni > 0 /\ ~sub.reconstruct) =>
              /\ bcall.res = "error"
              /\ Len(bcall.calls) = 1
              /\ bcall.written = {}
              /\ \A o \in DOMAIN bcall.buf : bcall.buf[o] = bcall.g
        /\ sub.reconstruct => bcall.res = "ok"

\* reconstruct_n has returned the two stored vectors
C20_Witness ==
    /\ bcall.op = "reconstruct_n"
    /\ bcall.res = "ok"
    /\ sub.reconstruct
    /\ bcall.ni = 2
    /\ Len(bcall.calls) = 2
    /\ bcall.calls[1].key # bcall.calls[2].key

\* reconstruct_n has failed at key 1 on an index without reconstruct
C20_FailsAtFirstKey ==
    /\ bcall.op = "reconstruct_n"
    /\ ~sub.reconstruct
    /\ bcall.i0 = 1
    /\ bcall.ni = 2
    /\ bcall.res = "error"
    /\ bcall.calls = <<[key |-> 1, off |-> 0]>>

(***************************************************************************)
(* Properties of concurrent readers.                                       *)
(***************************************************************************)
\* what the call of thread record th gives when it runs alone on the index
SequentialMem(th) ==
    IF th.op = "reconstruct_n"
    THEN IndexBinary_reconstruct_n(th.i0, th.ni, Mem(th.ni * bin.d, th.g))
    ELSE IF th.op = "search_and_reconstruct"
    THEN IndexBinary_search_and_reconstruct(th.n, th.k, th.sr,
             Mem(th.n * th.k * bin.d, th.g))
    ELSE IndexBinary_compute_residual(XBuf(th.x), th.key, Mem(bin.d, th.g))

\* C12: while any number of threads run assign, search_and_reconstruct,
\* reconstruct_n and compute_residual on one index, the fields of the index
\* stay as they were, no two calls use the same temporary array, and a call
\* that has ended has the outputs it has when it runs alone: the same buffer
\* contents, reconstruct calls and outcome, and for assign the labels and the
\* outcome of its search, with its temporary array released.
C12_ReadersDoNotInterfere ==
    /\ bin = bpre
    /\ \A t \in Threads, u \in Threads :
          (t # u /\ thr[t].tmp # 0) => thr[t].tmp # thr[u].tmp
    /\ \A t \in Threads :
          thr[t].pc = "done" =>
             IF thr[t].op = "assign"
             THEN LET r == IndexBinary_assign(thr[t].n, thr[t].x, thr[t].k,
                                              thr[t].sr)
                  IN  /\ thr[t].labels = r.labels
                      /\ thr[t].res = r.res
                      /\ thr[t].tmp = r.temps
             ELSE thr[t].m = SequentialMem(thr[t])

\* a reconstruct_n of two vectors has ended while another thread was in the
\* middle of an assign, holding its temporary array
C12_Witness ==
    /\ sub.reconstruct
    /\ thr[1].op = "reconstruct_n"
    /\ thr[1].pc = "done"
    /\ thr[1].ni = 2
    /\ thr[1].m.res = "ok"
    /\ thr[2].op = "assign"
    /\ thr[2].pc = "free"
    /\ thr[2].tmp # 0

\* C14: no construction and no call of a GpuIndexIVFFlat (set_index_,
\* copyFrom, train, reset, ...) prints anything: the lines written to stdout
\* and stderr by the last call are none.
C14_NothingPrinted == Len(gcall.out) = 0

\* C15: in every state of a GpuIndexIVFFlat, is_trained is true exactly when
\* the underlying IVF index exists, and no FAISS_ASSERT of train or copyFrom
\* has failed.
C15_TrainedIffIndex ==
    /\ gpu.is_trained <=> gpu.index_.exists
    /\ gcall.res # "abort"

\* C16: a train call on a trained index with n <= INT_MAX whose IVF settings
\* verify returns and leaves the whole object as it was (quantizer, IVF index,
\* ntotal, stored vectors); with n > INT_MAX it fails with an error and leaves
\* the object as it was.
C16_TrainIdempotent ==
    (GpuJust("train") /\ gpre.is_trained) =>
        /\ (gcall.n = 0 /\ gcall.fail # "verifyIVFSettings_") =>
              (gcall.res = "ok" /\ gpu = gpre)
        /\ gcall.n > 0 => (gcall.res = "error" /\ gpu = gpre)

\* C16 for a trained index whose underlying IVF index exists: there train
\* returns, or fails for n > INT_MAX, and changes nothing
C16_TrainedWithIndex ==
    (GpuJust("train") /\ gpre.is_trained /\ gpre.index_.exists) =>
        /\ (gcall.n = 0 /\ gcall.fail # "verifyIVFSettings_") =>
              (gcall.res = "ok" /\ gpu = gpre)
        /\ gcall.n > 0 => (gcall.res = "error" /\ gpu = gpre)

\* C17: in every state of a GpuIndexIVFFlat without an underlying IVF index
\* ntotal is 0, and the assertion of reset, FAISS_ASSERT(ntotal == 0), never
\* fails.
C17_NoIndexNoVectors ==
    /\ ~gpu.index_.exists => gpu.ntotal = 0
    /\ GpuJust("reset") => gcall.res # "abort"

\* C17 after copyFrom of an untrained CPU index: no IVF index, ntotal 0, and
\* a reset that follows returns
C17_AfterUntrainedCopy ==
    /\ (GpuJust("copyFrom") /\ ~gcall.index.is_trained) =>
          (gcall.res = "ok" /\ ~gpu.index_.exists /\ gpu.ntotal = 0)
    /\ (GpuJust("reset") /\ gcall.prev = "copyFrom" /\ ~gpre.is_trained
            /\ ~gpre.index_.exists) => gcall.res = "ok"

\* C18: copyTo leaves the GPU index as it was; with indicesOptions
\* INDICES_IVF it fails and the target CPU index is as before the call; with
\* another indicesOptions it returns unless copying the lists out throws, and
\* when it returns the target has code_size = d * sizeof(float) and a new list
\* set of nlist lists of that code size in place of its own, holding the
\* stored vectors, or nothing when the GPU index has no underlying IVF index.
C18_CopyTo ==
    GpuJust("copyTo") =>
        /\ gpu = gpre
        /\ gpu.indicesOptions = "INDICES_IVF" =>
              (gcall.res = "error" /\ gcall.copied = gcall.target)
        /\ (gpu.indicesOptions # "INDICES_IVF" /\ gcall.fail = "none") =>
              gcall.res = "ok"
        /\ (gpu.indicesOptions # "INDICES_IVF" /\ gcall.res = "ok") =>
              /\ gcall.copied.code_size = gpu.d * sizeof_float
              /\ gcall.copied.invlists.made = "copyTo"
              /\ gcall.copied.invlists.nlist = gpu.nlist
              /\ gcall.copied.invlists.code_size = gcall.copied.code_size
              /\ gcall.copied.invlists.ids =
                    (IF gpu.index_.exists THEN gpu.index_.ids ELSE <<>>)

\* copyTo has returned on a GPU index without an underlying IVF index, for a
\* target that held a vector in lists of its own
C18_Witness ==
    /\ GpuJust("copyTo")
    /\ gcall.res = "ok"
    /\ ~gpu.index_.exists
    /\ gcall.target.invlists.ids # <<>>
    /\ gcall.copied.invlists.ids = <<>>
    /\ gcall.copied.invlists.nlist # gcall.target.invlists.nlist

\* copyTo has failed on a GPU index with INDICES_IVF that holds vectors
C18_Refused ==
    /\ GpuJust("copyTo")
    /\ gcall.res = "error"
    /\ gpu.indicesOptions = "INDICES_IVF"
    /\ gpu.index_.exists
    /\ gpu.index_.ids # <<>>

\* C19: a reserveMemory(numVecs) call with numVecs > 0 that returns on an
\* existing IVF index has reserved numVecs on it; and when such a call is made
\* on an index without IVF index (there it always returns) and the next call,
\* train or copyFrom, returns having made the IVF index, numVecs is reserved on
\* the IVF index it made.
C19_ReserveNeverLost ==
    /\ (GpuJust("reserveMemory") /\ gcall.res = "ok" /\ gcall.n > 0
            /\ gpu.index_.exists) =>
          gpu.index_.reserved = gcall.n
    /\ ((GpuJust("train") \/ GpuJust("copyFrom"))
            /\ gcall.prev = "reserveMemory"
            /\ gcall.res = "ok"
            /\ gpre.reserveMemoryVecs_ > 0
            /\ ~gpre.index_.exists
            /\ gpu.index_.exists) =>
          gpu.index_.reserved = gpre.reserveMemoryVecs_

\* C19 for reserveMemory itself and for train: a reserveMemory call that
\* returns on an existing IVF index has reserved on it, and a train call that
\* returns on an untrained index has applied the reserveMemoryVecs_ it found
C19_ReserveAppliedByTrain ==
    /\ (GpuJust("reserveMemory") /\ gcall.res = "ok" /\ gpu.index_.exists) =>
          (gpu.index_.reserved = gcall.n /\ gpu.reserveMemoryVecs_ = gcall.n)
    /\ (GpuJust("train") /\ gcall.res = "ok" /\ ~gpre.is_trained
            /\ gpre.reserveMemoryVecs_ > 0) =>
          gpu.index_.reserved = gpre.reserveMemoryVecs_

\* the IndexBinary part at rest: one index, just constructed
BinaryAtRest ==
    /\ bin = IndexBinary_ctor(8, "METRIC_L2")
    /\ xb = <<>>
    /\ sub = [reconstruct |-> FALSE]
    /\ bcall = NoCall
    /\ bpre = bin

\* the GpuIndexIVFFlat part at rest: one index, just constructed
GpuAtRest ==
    /\ gpu = GpuIndexIVFFlat_ctor_dims(4, 2,
                [use_raft |-> FALSE, indicesOptions |-> "INDICES_64_BIT"]).g
    /\ gcall = NoGpuCall
    /\ gpre = gpu

\* no bfKnn call has been made; the build has no RAFT
KnnAtRest ==
    /\ kbuild = [USE_NVIDIA_RAFT |-> FALSE]
    /\ kcall = NoKnnCall

\* no thread has a call in progress
ThreadsAtRest == thr = [t \in Threads |-> IdleThread]

Init == InitBinary /\ InitGpu /\ InitKnn /\ ThreadsAtRest

\* an IndexBinary in use, the other parts at rest
BinaryInit == InitBinary /\ GpuAtRest /\ KnnAtRest /\ ThreadsAtRest

\* threads reading one IndexBinary, the other parts at rest
ThreadsInit == InitThreads /\ GpuAtRest /\ KnnAtRest

SpecThreads == ThreadsInit /\ [][NextThreads]_vars

SpecBinary == BinaryInit /\ [][NextBinary]_vars

\* a GpuIndexIVFFlat in use, the other parts at rest
GpuInit == BinaryAtRest /\ InitGpu /\ KnnAtRest /\ ThreadsAtRest

SpecGpu == GpuInit /\ [][NextGpu]_vars

\* bfKnn in use, the index objects at rest
KnnInit == BinaryAtRest /\ GpuAtRest /\ InitKnn /\ ThreadsAtRest

SpecKnn == KnnInit /\ [][NextKnn]_vars

Next == NextBinary \/ NextGpu \/ NextKnn \/ NextThreads

Spec == Init /\ [][Next]_vars

====
